---- MODULE Spec2Model ----
(***************************************************************************)
(* A model of src/main.py, the YouTube niche analyzer: identifier          *)
(* resolution (extract_channel_id), the three fetch steps                  *)
(* (get_channel_data, get_channel_videos, get_video_stats), the merge in   *)
(* main and the aggregation in analyze_niche.                              *)
(*                                                                         *)
(* Strings are sequences of tokens, Python dicts are records, Python       *)
(* floats are exact rationals [num, den] (plus the value -inf that         *)
(* np.log10(0) produces); the remote API is the environment and answers    *)
(* each call with a nondeterministically chosen response.                  *)
(***************************************************************************)
EXTENDS Integers, Sequences, FiniteSets, TLC

VARIABLES
    pc,               \* position in main / in the function under study
    url,              \* channel_url typed by the user (token sequence)
    channel_id,       \* result of extract_channel_id
    channel_data,     \* result of get_channel_data
    max_results,      \* get_channel_videos: the limit argument
    mode,             \* environment: how the listing resource answers
    playlist,         \* environment: the upload playlist (item ids, in order)
    videos,           \* get_channel_videos: the list built / main's videos
    next_page_token,  \* get_channel_videos: the loop's token
    duration,         \* environment: the H, M, S parts of the duration the API reports
    video_stats,      \* result of get_video_stats
    niche_data,       \* result of analyze_niche
    errors,           \* number of st.error messages shown
    raised,           \* uncaught exception leaving main ("none" if none)
    nCalls,           \* outbound calls issued, per resource (saturating)
    lastCall,         \* resource of the latest outbound call
    cause             \* per fetch step: what the API did ("transport", ...)

vars == <<pc, url, channel_id, channel_data, max_results, mode, playlist,
          videos, next_page_token, duration, video_stats, niche_data,
          errors, raised, nCalls, lastCall, cause>>

---------------------------------------------------------------------------
(* Bounds of the model.                                                    *)

\* longest URL, in tokens
MaxUrlLen == 4

\* most items in the upload playlist
MaxItems == 4

\* largest limit get_channel_videos is studied with
MaxLimit == 5

\* most items the API puts in one listing page
MaxPage == 2

\* the call counters stop counting here
CallCap == 3

\* most records in an input of analyze_niche
MaxVideos == 2

\* most digits of one component of a duration
MaxDigits == 2

---------------------------------------------------------------------------
(* Small helpers.                                                          *)

Min(a, b) == IF a <= b THEN a ELSE b

SeqsUpTo(S, n) == UNION {[1..k -> S] : k \in 0..n}

\* Python's None, and a Python str held as a sequence of tokens
None == [kind |-> "none"]

Str(chars) == [kind |-> "str", chars |-> chars]

---------------------------------------------------------------------------
(* extract_channel_id (src/main.py 50-67).                                 *)
(*                                                                         *)
(* A URL is a sequence of tokens: the literal prefix of each of the four    *)
(* regular expressions, the bare domain, characters of the class           *)
(* [a-zA-Z0-9_-] and a character outside it that occurs in no pattern.     *)
(* No token sequence spells a pattern's prefix other than by its token.    *)

Domain == "youtube.com"

\* the literal prefixes of the four regular expressions, in list order
patterns == <<"youtube.com/channel/", "youtube.com/c/", "youtube.com/user/", "youtube.com/@">>

PatternTokens == {patterns[k] : k \in 1..Len(patterns)}

IdChars == {"a", "b"}

OtherChars == {"#"}

Tokens == {Domain} \cup PatternTokens \cup IdChars \cup OtherChars

\* The part of the text starting at token i that [a-zA-Z0-9_-]+ consumes:
\* identifier characters, and the letters "youtube" that open a token
\* holding the domain (its "." ends the run).
RECURSIVE IdRun(_, _)
IdRun(u, i) ==
    IF i > Len(u) THEN <<>>
    ELSE IF u[i] \in IdChars THEN <<u[i]>> \o IdRun(u, i + 1)
    ELSE IF u[i] \in {Domain} \cup PatternTokens THEN <<"youtube">>
    ELSE <<>>

\* positions where r'youtube\.com<prefix>([a-zA-Z0-9_-]+)' matches
MatchesAt(u, k, i) ==
    /\ i + 1 <= Len(u)
    /\ u[i] = patterns[k]
    /\ IdRun(u, i + 1) # <<>>

MatchPositions(u, k) == {i \in 1..Len(u) : MatchesAt(u, k, i)}

\* re.search(pattern, url): the leftmost match, group(1) greedy
Search(u, k) ==
    LET ps == MatchPositions(u, k)
    IN  IF ps = {} THEN None
        ELSE LET i == CHOOSE p \in ps : \A q \in ps : p <= q
             IN  Str(IdRun(u, i + 1))

\* the patterns tried last to first
RECURSIVE TryPatternsReversed(_, _)
TryPatternsReversed(u, k) ==
    IF k > Len(patterns) THEN None
    ELSE LET rest == TryPatternsReversed(u, k + 1)
         IN  IF rest # None THEN rest ELSE Search(u, k)

\* the for loop over patterns, from pattern k on
RECURSIVE TryPatterns(_, _)
TryPatterns(u, k) ==
    IF k > Len(patterns) THEN None
    ELSE LET match == Search(u, k)
         IN  IF match # None THEN match ELSE TryPatterns(u, k + 1)

\* 'youtube.com' in url
ContainsDomain(u) == \E i \in 1..Len(u) : u[i] \in {Domain} \cup PatternTokens

CustomUrl == Str(<<"custom_url">>)

\* the function with its patterns tried last to first
ExtractChannelIdReversed(u) ==
    LET m == TryPatternsReversed(u, 1)
    IN  IF m # None THEN m
        ELSE IF ContainsDomain(u) THEN CustomUrl
        ELSE None

ExtractChannelId(u) ==
    LET m == TryPatterns(u, 1)
    IN  IF m # None THEN m
        ELSE IF ContainsDomain(u) THEN CustomUrl
        ELSE None

---------------------------------------------------------------------------
(* Python floats, as exact rationals [num, den] with den > 0, in lowest    *)
(* terms; np.log10(0) is the float -inf.                                   *)

RECURSIVE GCD(_, _)
GCD(a, b) == IF b = 0 THEN a ELSE GCD(b, a % b)

Abs(n) == IF n < 0 THEN 0 - n ELSE n

Rat(n, d) ==
    LET g == GCD(Abs(n), d)
    IN  [num |-> n \div g, den |-> d \div g]

RatInt(n) == [num |-> n, den |-> 1]

RatMul(a, b) == Rat(a.num * b.num, a.den * b.den)

\* a / b for b > 0
RatDiv(a, b) == Rat(a.num * b.den, a.den * b.num)

RatSub(a, b) == Rat(a.num * b.den - b.num * a.den, a.den * b.den)

RatLess(a, b) == a.num * b.den < b.num * a.den

RatLeq(a, b) == a.num * b.den <= b.num * a.den

NegInf == [kind |-> "-inf"]

\* Python's min(100, x) and max(0, x) on floats; -inf is below every number
PyMin(c, x) == IF x = NegInf THEN NegInf ELSE IF RatLess(x, RatInt(c)) THEN x ELSE RatInt(c)

PyMax(c, x) == IF x = NegInf THEN RatInt(c) ELSE IF RatLess(RatInt(c), x) THEN x ELSE RatInt(c)

\* floor(log10(m)) for m >= 1
RECURSIVE ILog10(_)
ILog10(m) == IF m < 10 THEN 0 ELSE 1 + ILog10(m \div 10)

RECURSIVE Pow10(_)
Pow10(k) == IF k = 0 THEN 1 ELSE 10 * Pow10(k - 1)

\* ceil(1000 * 10^(j/20)) for j = 0..19: x >= 10^(j/20) iff 1000x >= MantissaSteps[j+1]
\* for every x that is a whole number of thousandths
MantissaSteps ==
    <<1000, 1123, 1259, 1413, 1585, 1779, 1996, 2239, 2512, 2819,
      3163, 3549, 3982, 4467, 5012, 5624, 6310, 7080, 7944, 8913>>

\* np.log10(m) * 20, kept to its integer part (exact for m of up to four
\* significant digits, which the view counts of the model are): -inf at 0
Log10Times20(m) ==
    IF m = 0 THEN NegInf
    ELSE LET d == ILog10(m)
             mant == IF d <= 3 THEN m * Pow10(3 - d) ELSE m \div Pow10(d - 3)
             j == CHOOSE k \in 1..20 :
                      /\ mant >= MantissaSteps[k]
                      /\ \A l \in 1..20 : mant >= MantissaSteps[l] => l <= k
         IN  RatInt(20 * d + (j - 1))

---------------------------------------------------------------------------
(* analyze_niche (src/main.py 187-244).                                    *)
(*                                                                         *)
(* A video record is a record with the field video_id and, once a          *)
(* statistics record was merged into it, views, likes, comments and tags.  *)

StatFields == {"views", "likes", "comments", "tags"}

HasStats(v) == StatFields \subseteq DOMAIN v

\* sum(v['views'] for v in videos_data)
RECURSIVE TotalViews(_, _)
TotalViews(vs, i) == IF i > Len(vs) THEN 0 ELSE vs[i].views + TotalViews(vs, i + 1)

\* sum(v['likes'] + v['comments'] for v in videos_data)
RECURSIVE TotalEngagement(_, _)
TotalEngagement(vs, i) ==
    IF i > Len(vs) THEN 0 ELSE (vs[i].likes + vs[i].comments) + TotalEngagement(vs, i + 1)

MaxViews(vs) == CHOOSE m \in {vs[i].views : i \in 1..Len(vs)} : \A i \in 1..Len(vs) : vs[i].views <= m

\* all_tags: every record's tag list, concatenated in record order
RECURSIVE AllTags(_, _)
AllTags(vs, i) == IF i > Len(vs) THEN <<>> ELSE vs[i].tags \o AllTags(vs, i + 1)

\* tag_counts: a dict keeps its keys in insertion order, so it is the
\* sequence of <<tag, count>> in order of first occurrence
IndexOfTag(counts, t) ==
    IF \E i \in 1..Len(counts) : counts[i][1] = t
    THEN CHOOSE i \in 1..Len(counts) : counts[i][1] = t
    ELSE 0

RECURSIVE TagCounts(_, _, _)
TagCounts(tags, i, counts) ==
    IF i > Len(tags) THEN counts
    ELSE LET k == IndexOfTag(counts, tags[i])
         IN  IF k = 0
             THEN TagCounts(tags, i + 1, Append(counts, <<tags[i], 1>>))
             ELSE TagCounts(tags, i + 1, [counts EXCEPT ![k] = <<tags[i], counts[k][2] + 1>>])

\* a sort that puts an item in front of the items of equal count
InsertByCountTiesReversed(sorted, item) ==
    LET k == Cardinality({i \in 1..Len(sorted) : sorted[i][2] > item[2]})
    IN  SubSeq(sorted, 1, k) \o <<item>> \o SubSeq(sorted, k + 1, Len(sorted))

\* sorted(items, key=count, reverse=True): stable, so items of equal count
\* keep their order; built by inserting each item behind every item whose
\* count is not smaller
InsertByCount(sorted, item) ==
    LET k == Cardinality({i \in 1..Len(sorted) : sorted[i][2] >= item[2]})
    IN  SubSeq(sorted, 1, k) \o <<item>> \o SubSeq(sorted, k + 1, Len(sorted))

RECURSIVE SortedByCount(_, _, _)
SortedByCount(items, i, acc) ==
    IF i > Len(items) THEN acc
    ELSE SortedByCount(items, i + 1, InsertByCount(acc, items[i]))

\* the slice [:5]
TopN == 5

Take(s, n) == SubSeq(s, 1, Min(n, Len(s)))

TopTags(vs) == Take(SortedByCount(TagCounts(AllTags(vs, 1), 1, <<>>), 1, <<>>), TopN)

\* the rate as a fraction, not a percentage
EngagementRateFraction(total_engagement, total_views) ==
    IF total_views > 0
    THEN Rat(total_engagement, total_views)
    ELSE RatInt(0)

\* avg_engagement_rate = total_engagement / total_views * 100 if total_views > 0 else 0
EngagementRate(total_engagement, total_views) ==
    IF total_views > 0
    THEN RatMul(Rat(total_engagement, total_views), RatInt(100))
    ELSE RatInt(0)

\* market_size_score = min(100, np.log10(max_views) * 20)
MarketSizeScore(max_views) == PyMin(100, Log10Times20(max_views))

\* the score without its max(0, ...)
SaturationScoreUnclamped(avg_views, cd) ==
    IF cd # None
    THEN LET reach_ratio == IF cd.subscribers > 0
                            THEN RatDiv(avg_views, RatInt(cd.subscribers))
                            ELSE RatInt(1)
         IN  RatSub(RatInt(100), RatMul(reach_ratio, RatInt(100)))
    ELSE RatInt(50)

\* the saturation branch: channel_data is a summary (truthy) or None
SaturationScore(avg_views, cd) ==
    IF cd # None
    THEN LET reach_ratio == IF cd.subscribers > 0
                            THEN RatDiv(avg_views, RatInt(cd.subscribers))
                            ELSE RatInt(1)
         IN  PyMax(0, RatSub(RatInt(100), RatMul(reach_ratio, RatInt(100))))
    ELSE RatInt(50)

\* rpm = 2.0, times 1.2 above 5 % engagement, times 0.8 below 2 %
EstimatedRpm(rate) ==
    IF RatLess(RatInt(5), rate) THEN RatMul(RatInt(2), Rat(12, 10))
    ELSE IF RatLess(rate, RatInt(2)) THEN RatMul(RatInt(2), Rat(8, 10))
    ELSE RatInt(2)

\* profitability_score = min(100, (rpm * avg_views / 1000) / 2 * 100)
ProfitabilityScore(rpm, avg_views) ==
    PyMin(100, RatMul(RatDiv(RatDiv(RatMul(rpm, avg_views), RatInt(1000)), RatInt(2)), RatInt(100)))

\* the body of analyze_niche for a non-empty list whose records carry the
\* statistics fields
AnalyzeNiche(videos_data, cd) ==
    LET total_videos == Len(videos_data)
        total_views == TotalViews(videos_data, 1)
        avg_views == Rat(total_views, total_videos)
        max_views == MaxViews(videos_data)
        total_engagement == TotalEngagement(videos_data, 1)
        avg_engagement_rate == EngagementRate(total_engagement, total_views)
        rpm == EstimatedRpm(avg_engagement_rate)
    IN  [total_videos |-> total_videos,
         avg_views |-> avg_views,
         max_views |-> max_views,
         avg_engagement_rate |-> avg_engagement_rate,
         market_size_score |-> MarketSizeScore(max_views),
         saturation_score |-> SaturationScore(avg_views, cd),
         profitability_score |-> ProfitabilityScore(rpm, avg_views),
         estimated_rpm |-> rpm,
         top_tags |-> TopTags(videos_data),
         total_engagement |-> total_engagement]

\* analyze_niche returns {} for an empty list
EmptyResult == [kind |-> "empty"]

---------------------------------------------------------------------------
(* The outbound calls, counted per resource.                               *)

Resources == {"summary", "lookup", "pages", "videos"}

NoCalls == [r \in Resources |-> 0]

Called(calls, r, n) == [calls EXCEPT ![r] = Min(CallCap, calls[r] + n)]

Steps == {"summary", "listing", "stats"}

NoCause == [s \in Steps |-> "none"]

---------------------------------------------------------------------------
(* get_channel_data (src/main.py 70-95).                                   *)

SubscriberSet == {0, 10, 100000}

\* what the channels resource can answer: the request raises (timeout,
\* refused connection, unparseable body), an error payload (quota or
\* other), a payload without items, or one channel
ChannelResponses ==
    {[kind |-> "transport"], [kind |-> "error", quota |-> TRUE],
     [kind |-> "error", quota |-> FALSE], [kind |-> "noitems"]}
    \cup {[kind |-> "ok", subscribers |-> n] : n \in SubscriberSet}

GetChannelData(r) ==
    CASE r.kind = "transport" -> [error |-> "Connection error"]
      [] r.kind = "error" -> IF r.quota THEN [error |-> "API quota exceeded"]
                                        ELSE [error |-> "error_msg"]
      [] r.kind = "noitems" -> [error |-> "Channel not found"]
      [] r.kind = "ok" -> [subscribers |-> r.subscribers]

IsError(cd) == "error" \in DOMAIN cd

---------------------------------------------------------------------------
(* get_channel_videos (src/main.py 98-141).                                *)
(*                                                                         *)
(* The listing resource is stateless: it serves the page that starts at    *)
(* the position the request's pageToken names (the start of the playlist   *)
(* without one).  A token is a position 1..Len(playlist), 0 is "no token". *)
(* "paged": non-empty pages in playlist order, only the last one without   *)
(* a token.  "flaky": the same, or the request fails, or the payload has   *)
(* no items.  "arbitrary": any page size, any token, any failure.          *)

Modes == {"paged", "flaky", "arbitrary"}

Playlist(n) == [i \in 1..n |-> i]

\* the record built from one listing item (title, published_at and
\* thumbnail are carried along unchanged and left out)
ListingRecord(id) == [video_id |-> id]

Failures == {[kind |-> "transport"], [kind |-> "noitems"]}

PageResponses(m, pl, start) ==
    LET rest == Len(pl) - start
        page(k, t) == [kind |-> "page", items |-> SubSeq(pl, start + 1, start + k), token |-> t]
        sizes == IF rest = 0 THEN {0} ELSE 1..Min(MaxPage, rest)
        paged == {page(k, IF start + k < Len(pl) THEN start + k ELSE 0) : k \in sizes}
    IN  CASE m = "paged" -> paged
          [] m = "flaky" -> paged \cup Failures
          [] m = "arbitrary" ->
                {page(k, t) : k \in 0..Min(MaxPage, rest), t \in 0..Len(pl)} \cup Failures

LookupResponses(m) ==
    IF m = "paged" THEN {[kind |-> "ok"]} ELSE {[kind |-> "ok"]} \cup Failures

\* a request that never carries the token
RequestTokenDropped(token) == 0

\* the pageToken the request carries: if next_page_token: url += ...
RequestToken(token) == token

\* while len(videos) < max_results
LoopContinues(vs, limit) == Len(vs) < limit

\* return videos[:max_results]
Result(vs, limit) == Take(vs, limit)

\* the records of one page, appended in page order
RECURSIVE AppendItems(_, _, _)
AppendItems(vs, items, i) ==
    IF i > Len(items) THEN vs
    ELSE AppendItems(Append(vs, ListingRecord(items[i])), items, i + 1)

\* return [] in the two places the code has it
NoItemsResult == <<>>

ExceptResult == <<>>

ListingCause(result) == IF result = <<>> THEN "nodata" ELSE "ok"

\* the channels?part=contentDetails call and the first test of the loop
GcvLookup ==
    /\ pc = "gcv_lookup"
    /\ \E r \in LookupResponses(mode) :
        /\ nCalls' = Called(nCalls, "lookup", 1)
        /\ lastCall' = "lookup"
        /\ CASE r.kind = "transport" ->
                  /\ videos' = ExceptResult
                  /\ pc' = "gcv_return"
                  /\ cause' = [cause EXCEPT !.listing = "transport"]
             [] r.kind = "noitems" ->
                  /\ videos' = NoItemsResult
                  /\ pc' = "gcv_return"
                  /\ cause' = [cause EXCEPT !.listing = "nodata"]
             [] r.kind = "ok" ->
                  IF LoopContinues(<<>>, max_results)
                  THEN /\ videos' = <<>>
                       /\ pc' = "gcv_loop"
                       /\ cause' = cause
                  ELSE /\ videos' = Result(<<>>, max_results)
                       /\ pc' = "gcv_return"
                       /\ cause' = [cause EXCEPT !.listing = "ok"]
    /\ next_page_token' = 0
    /\ UNCHANGED <<duration, url, channel_id, channel_data, max_results, mode, playlist,
                   video_stats, niche_data, errors, raised>>

\* one pass of the while loop: one playlistItems call, then the loop test
GcvPage ==
    /\ pc = "gcv_loop"
    /\ \E r \in PageResponses(mode, playlist, RequestToken(next_page_token)) :
        /\ nCalls' = Called(nCalls, "pages", 1)
        /\ lastCall' = "pages"
        /\ CASE r.kind = "transport" ->
                  /\ videos' = ExceptResult
                  /\ pc' = "gcv_return"
                  /\ cause' = [cause EXCEPT !.listing = "transport"]
                  /\ next_page_token' = next_page_token
             [] r.kind = "noitems" ->
                  /\ videos' = Result(videos, max_results)
                  /\ pc' = "gcv_return"
                  /\ cause' = [cause EXCEPT !.listing = ListingCause(videos)]
                  /\ next_page_token' = next_page_token
             [] r.kind = "page" ->
                  LET vs == AppendItems(videos, r.items, 1)
                  IN  IF r.token # 0 /\ LoopContinues(vs, max_results)
                      THEN /\ videos' = vs
                           /\ pc' = "gcv_loop"
                           /\ cause' = cause
                           /\ next_page_token' = r.token
                      ELSE /\ videos' = Result(vs, max_results)
                           /\ pc' = "gcv_return"
                           /\ cause' = [cause EXCEPT !.listing = ListingCause(vs)]
                           /\ next_page_token' = IF r.token # 0 THEN r.token ELSE next_page_token
    /\ UNCHANGED <<duration, url, channel_id, channel_data, max_results, mode, playlist,
                   video_stats, niche_data, errors, raised>>

---------------------------------------------------------------------------
(* get_video_stats (src/main.py 144-184).                                  *)

\* ids per videos call: video_ids[i:i + 50]
ChunkSize == 50

NumChunks(ids) == (Len(ids) + ChunkSize - 1) \div ChunkSize

Chunk(ids, c) == SubSeq(ids, (c - 1) * ChunkSize + 1, Min(c * ChunkSize, Len(ids)))

\* A duration is a sequence of characters.  The API's value is described by
\* its parts: the digits of the hours, minutes and seconds components (no
\* digits: the component is absent) and whether a day component precedes
\* the "T", as in "P1DT2H".
Digits == {"0", "1", "9"}

DigitStrings == SeqsUpTo(Digits, MaxDigits)

Component(digits, letter) == IF digits = <<>> THEN <<>> ELSE digits \o <<letter>>

DurationText(d) ==
    (IF d.days THEN <<"P", "1", "D", "T">> ELSE <<"P", "T">>)
    \o Component(d.h, "H") \o Component(d.m, "M") \o Component(d.s, "S")

\* the text \d+ consumes from character i on
RECURSIVE DigitRun(_, _)
DigitRun(text, i) ==
    IF i <= Len(text) /\ text[i] \in Digits THEN <<text[i]>> \o DigitRun(text, i + 1) ELSE <<>>

\* (?:(\d+)X)? at character i: the group's text and the character after
\* the match; the group is None (no text) when no digits followed by X
\* stand there
OptionalGroup(text, i, letter) ==
    LET run == DigitRun(text, i)
        after == i + Len(run)
    IN  IF run # <<>> /\ after <= Len(text) /\ text[after] = letter
        THEN [group |-> run, next |-> after + 1]
        ELSE [group |-> <<>>, next |-> i]

\* re.match(r'PT...', duration) is not None
DurationMatches(text) == Len(text) >= 2 /\ text[1] = "P" /\ text[2] = "T"

DigitValue(c) == CASE c = "0" -> 0 [] c = "1" -> 1 [] c = "9" -> 9

\* int(group or 0)
RECURSIVE PyInt(_, _)
PyInt(group, acc) ==
    IF group = <<>> THEN acc ELSE PyInt(Tail(group), 10 * acc + DigitValue(Head(group)))

\* total_seconds with the minutes counted as seconds
TotalSecondsMinutesUnscaled(hours, minutes, seconds) == hours * 3600 + minutes + seconds

\* total_seconds = hours * 3600 + minutes * 60 + seconds
TotalSeconds(hours, minutes, seconds) == hours * 3600 + minutes * 60 + seconds

\* lines 166-171, for a duration the pattern matches
ParseDuration(text) ==
    LET H == OptionalGroup(text, 3, "H")
        M == OptionalGroup(text, H.next, "M")
        S == OptionalGroup(text, M.next, "S")
    IN  TotalSeconds(PyInt(H.group, 0), PyInt(M.group, 0), PyInt(S.group, 0))

\* the statistics and tags of one item of a videos response: every field
\* present, or none of the optional ones (viewCount, likeCount,
\* commentCount, tags)
ItemShapes ==
    {[optional |-> TRUE, viewCount |-> 40, likeCount |-> 3, commentCount |-> 1, tags |-> <<"t">>,
      duration |-> DurationText(duration)],
     [optional |-> TRUE, viewCount |-> 0, likeCount |-> 0, commentCount |-> 0, tags |-> <<>>,
      duration |-> DurationText(duration)],
     [optional |-> FALSE, duration |-> DurationText(duration)]}

\* what the videos resource can answer for one chunk: the request raises,
\* a payload without items, or items for some of the ids asked for (a
\* deleted or private video has none), in the order asked
StatResponses(chunk) ==
    Failures \cup
    {[kind |-> "items", present |-> S, shape |-> sh] :
        S \in SUBSET {chunk[i] : i \in 1..Len(chunk)}, sh \in ItemShapes}

\* int(stats.get(key, 0))
GetCount(sh, key) == IF sh.optional THEN sh[key] ELSE 0

\* item['snippet'].get('tags', [])
GetTags(sh) == IF sh.optional THEN sh.tags ELSE <<>>

\* the record appended for one item
StatRecord(id, sh) ==
    [video_id |-> id,
     duration |-> ParseDuration(sh.duration),
     views |-> GetCount(sh, "viewCount"),
     likes |-> GetCount(sh, "likeCount"),
     comments |-> GetCount(sh, "commentCount"),
     tags |-> GetTags(sh)]

RECURSIVE ItemRecords(_, _, _)
ItemRecords(chunk, r, i) ==
    IF i > Len(chunk) THEN <<>>
    ELSE (IF chunk[i] \in r.present THEN <<StatRecord(chunk[i], r.shape)>> ELSE <<>>)
         \o ItemRecords(chunk, r, i + 1)

\* the loop over chunks from chunk c on, resp[c] the answer to chunk c's call;
\* an exception anywhere discards what was collected
\* time_match is None for an item of chunk c: time_match.group raises
Unparsable(ids, resp, c) ==
    /\ resp[c].kind = "items"
    /\ \E i \in 1..Len(Chunk(ids, c)) : Chunk(ids, c)[i] \in resp[c].present
    /\ ~DurationMatches(resp[c].shape.duration)

RECURSIVE StatsLoop(_, _, _, _)
StatsLoop(ids, resp, c, all_stats) ==
    IF c > NumChunks(ids) THEN all_stats
    ELSE CASE resp[c].kind = "transport" -> ExceptResult
           [] resp[c].kind = "noitems" -> StatsLoop(ids, resp, c + 1, all_stats)
           [] Unparsable(ids, resp, c) -> ExceptResult
           [] resp[c].kind = "items" /\ ~Unparsable(ids, resp, c) ->
                StatsLoop(ids, resp, c + 1, all_stats \o ItemRecords(Chunk(ids, c), resp[c], 1))

GetVideoStats(ids, resp) == IF ids = <<>> THEN <<>> ELSE StatsLoop(ids, resp, 1, <<>>)

\* calls issued: up to and including the first one that raises
\* the chunks whose pass through the loop raises
Raising(ids, resp) ==
    {c \in 1..NumChunks(ids) : resp[c].kind = "transport" \/ Unparsable(ids, resp, c)}

StatCalls(ids, resp) ==
    LET failing == Raising(ids, resp)
    IN  IF failing = {} THEN NumChunks(ids)
        ELSE CHOOSE c \in failing : \A d \in failing : c <= d

StatsCause(ids, resp) ==
    IF Raising(ids, resp) # {}
    THEN IF resp[StatCalls(ids, resp)].kind = "transport" THEN "transport" ELSE "malformed"
    ELSE IF GetVideoStats(ids, resp) = <<>> THEN "nodata"
    ELSE "ok"

---------------------------------------------------------------------------
(* main (src/main.py 270-308), up to the call of analyze_niche.            *)

\* get_channel_videos(api_key, channel_id, 30)
MainLimit == 30

\* lines 275-280: nothing happens without a URL; an unresolvable URL is
\* reported and main returns
MainResolve ==
    /\ pc = "start"
    /\ IF url = <<>>
       THEN /\ pc' = "done"
            /\ UNCHANGED <<channel_id, errors>>
       ELSE /\ channel_id' = ExtractChannelId(url)
            /\ IF channel_id' = None
               THEN /\ errors' = errors + 1
                    /\ pc' = "done"
               ELSE /\ errors' = errors
                    /\ pc' = "get_channel_data"
    /\ UNCHANGED <<duration, url, channel_data, max_results, mode, playlist, videos,
                   next_page_token, video_stats, niche_data, raised, nCalls,
                   lastCall, cause>>

ChannelCause(r) ==
    CASE r.kind = "transport" -> "transport"
      [] r.kind = "error" -> "error"
      [] r.kind = "noitems" -> "nodata"
      [] r.kind = "ok" -> "ok"

\* lines 284-288
MainGetChannelData ==
    /\ pc = "get_channel_data"
    /\ \E r \in ChannelResponses :
        /\ channel_data' = GetChannelData(r)
        /\ cause' = [cause EXCEPT !.summary = ChannelCause(r)]
    /\ nCalls' = Called(nCalls, "summary", 1)
    /\ lastCall' = "summary"
    /\ IF IsError(channel_data')
       THEN /\ errors' = errors + 1
            /\ pc' = "done"
       ELSE /\ errors' = errors
            /\ pc' = "gcv_lookup"
    /\ UNCHANGED <<duration, url, channel_id, max_results, mode, playlist, videos,
                   next_page_token, video_stats, niche_data, raised>>

\* the empty list is reported but main goes on
MainCheckVideosNoReturn ==
    /\ pc = "gcv_return"
    /\ errors' = IF videos = <<>> THEN errors + 1 ELSE errors
    /\ pc' = "get_video_stats"
    /\ UNCHANGED <<duration, url, channel_id, channel_data, max_results, mode, playlist,
                   videos, next_page_token, video_stats, niche_data, raised,
                   nCalls, lastCall, cause>>

\* lines 291-294, after get_channel_videos returned
MainCheckVideos ==
    /\ pc = "gcv_return"
    /\ IF videos = <<>>
       THEN /\ errors' = errors + 1
            /\ pc' = "done"
       ELSE /\ errors' = errors
            /\ pc' = "get_video_stats"
    /\ UNCHANGED <<duration, url, channel_id, channel_data, max_results, mode, playlist,
                   videos, next_page_token, video_stats, niche_data, raised,
                   nCalls, lastCall, cause>>

VideoIds(vs) == [i \in 1..Len(vs) |-> vs[i].video_id]

\* lines 297-298
MainGetVideoStats ==
    /\ pc = "get_video_stats"
    /\ LET video_ids == VideoIds(videos)
       IN  \E resp \in [1..NumChunks(video_ids) -> StatResponses(video_ids)] :
              /\ video_stats' = GetVideoStats(video_ids, resp)
              /\ nCalls' = Called(nCalls, "videos", StatCalls(video_ids, resp))
              /\ cause' = [cause EXCEPT !.stats = StatsCause(video_ids, resp)]
    /\ lastCall' = "videos"
    /\ pc' = "merge"
    /\ UNCHANGED <<duration, url, channel_id, channel_data, max_results, mode, playlist,
                   videos, next_page_token, niche_data, errors, raised>>

\* videos[i].update(stat) for the first stat of the same video_id
Merge(video, stats) ==
    LET js == {j \in 1..Len(stats) : stats[j].video_id = video.video_id}
    IN  IF js = {} THEN video
        ELSE stats[CHOOSE j \in js : \A k \in js : j <= k] @@ video

\* lines 301-305
MainMerge ==
    /\ pc = "merge"
    /\ videos' = [i \in 1..Len(videos) |-> Merge(videos[i], video_stats)]
    /\ pc' = "analyze"
    /\ UNCHANGED <<duration, url, channel_id, channel_data, max_results, mode, playlist,
                   next_page_token, video_stats, niche_data, errors, raised,
                   nCalls, lastCall, cause>>

\* line 308: niche_data = analyze_niche(videos, channel_data); v['views'] of
\* a record without statistics raises KeyError, which nothing catches
MainAnalyze ==
    /\ pc = "analyze"
    /\ IF videos = <<>>
       THEN /\ niche_data' = EmptyResult
            /\ raised' = raised
       ELSE IF \E i \in 1..Len(videos) : ~HasStats(videos[i])
       THEN /\ niche_data' = niche_data
            /\ raised' = "KeyError"
       ELSE /\ niche_data' = AnalyzeNiche(videos, channel_data)
            /\ raised' = raised
    /\ pc' = "done"
    /\ UNCHANGED <<duration, url, channel_id, channel_data, max_results, mode, playlist,
                   videos, next_page_token, video_stats, errors, nCalls,
                   lastCall, cause>>

---------------------------------------------------------------------------
(* Specifications.                                                         *)

\* a duration of hours, minutes and seconds: "PT1M9S"
PlainDuration == [days |-> FALSE, h |-> <<>>, m |-> <<"1">>, s |-> <<"9">>]

Fresh ==
    /\ duration = PlainDuration
    /\ channel_id = None
    /\ channel_data = None
    /\ videos = <<>>
    /\ next_page_token = 0
    /\ video_stats = <<>>
    /\ niche_data = None
    /\ errors = 0
    /\ raised = "none"
    /\ nCalls = NoCalls
    /\ lastCall = "none"
    /\ cause = NoCause

\* one invocation of main: an empty input, a string that is no URL, a
\* handle URL and a URL of no known shape
MainUrls == {<<>>, <<"#", "a">>, <<patterns[4], "a">>, <<Domain, "#">>}

Init ==
    /\ pc = "start"
    /\ url \in MainUrls
    /\ mode \in {"paged", "flaky"}
    /\ playlist \in {Playlist(n) : n \in 0..MaxItems}
    /\ max_results = MainLimit
    /\ Fresh

Next ==
    \/ MainResolve
    \/ MainGetChannelData
    \/ GcvLookup
    \/ GcvPage
    \/ MainCheckVideos
    \/ MainGetVideoStats
    \/ MainMerge
    \/ MainAnalyze

Spec == Init /\ [][Next]_vars

\* identifier resolution over every URL of up to MaxUrlLen tokens
ResolveInit ==
    /\ pc = "start"
    /\ url \in SeqsUpTo(Tokens, MaxUrlLen)
    /\ mode = "paged"
    /\ playlist = <<>>
    /\ max_results = MainLimit
    /\ Fresh

ResolveNext ==
    \/ MainResolve
    \/ MainGetChannelData

SpecResolve == ResolveInit /\ [][ResolveNext]_vars

\* get_channel_videos alone, for every limit up to MaxLimit
FetchInit ==
    /\ pc = "gcv_lookup"
    /\ url = <<>>
    /\ mode \in Modes
    /\ playlist \in {Playlist(n) : n \in 0..MaxItems}
    /\ max_results \in 0..MaxLimit
    /\ Fresh

FetchNext ==
    \/ GcvLookup
    \/ GcvPage

SpecFetch == FetchInit /\ [][FetchNext]_vars

\* the function runs to its return: nothing suspends the loop
FairFetch == SpecFetch /\ WF_vars(GcvLookup) /\ WF_vars(GcvPage)

\* analyze_niche alone, on records that carry their statistics
ViewSet == {0, 1, 50, 100000, 200000}

LikeSet == {0, 3}

CommentSet == {0, 2}

TagSet == {"a", "b", "c", "d", "e", "f"}

NumericVideos ==
    {[video_id |-> 1, views |-> v, likes |-> l, comments |-> c, tags |-> <<>>] :
        v \in ViewSet, l \in LikeSet, c \in CommentSet}

TagLists ==
    SeqsUpTo(TagSet, 2) \cup {<<"f", "e", "d", "c", "b", "a">>, <<"c", "a", "b", "c", "a", "b">>}

TaggedVideos ==
    {[video_id |-> 1, views |-> 1, likes |-> 0, comments |-> 0, tags |-> t] : t \in TagLists}

ChannelInputs == {None} \cup {[subscribers |-> n] : n \in SubscriberSet}

AnalyzeInit ==
    /\ pc = "analyze"
    /\ url = <<>>
    /\ mode = "paged"
    /\ playlist = <<>>
    /\ max_results = MainLimit
    /\ channel_id = None
    /\ channel_data \in ChannelInputs
    /\ videos \in SeqsUpTo(NumericVideos, MaxVideos)
    /\ next_page_token = 0
    /\ duration = PlainDuration
    /\ video_stats = <<>>
    /\ niche_data = None
    /\ errors = 0
    /\ raised = "none"
    /\ nCalls = NoCalls
    /\ lastCall = "none"
    /\ cause = NoCause

SpecAnalyze == AnalyzeInit /\ [][MainAnalyze]_vars

TagsInit ==
    /\ pc = "analyze"
    /\ url = <<>>
    /\ mode = "paged"
    /\ playlist = <<>>
    /\ max_results = MainLimit
    /\ channel_id = None
    /\ channel_data = None
    /\ videos \in SeqsUpTo(TaggedVideos, MaxVideos)
    /\ next_page_token = 0
    /\ duration = PlainDuration
    /\ video_stats = <<>>
    /\ niche_data = None
    /\ errors = 0
    /\ raised = "none"
    /\ nCalls = NoCalls
    /\ lastCall = "none"
    /\ cause = NoCause

SpecTags == TagsInit /\ [][MainAnalyze]_vars

\* get_video_stats alone, for one listed video and every duration whose
\* components have up to MaxDigits digits
Durations ==
    {[days |-> dd, h |-> h, m |-> m, s |-> sec] :
        dd \in BOOLEAN, h \in DigitStrings, m \in DigitStrings, sec \in DigitStrings}

DurationInit ==
    /\ pc = "get_video_stats"
    /\ url = <<>>
    /\ mode = "paged"
    /\ playlist = <<1>>
    /\ max_results = MainLimit
    /\ channel_id = None
    /\ channel_data = None
    /\ videos = <<ListingRecord(1)>>
    /\ next_page_token = 0
    /\ duration \in Durations
    /\ video_stats = <<>>
    /\ niche_data = None
    /\ errors = 0
    /\ raised = "none"
    /\ nCalls = NoCalls
    /\ lastCall = "none"
    /\ cause = NoCause

SpecDuration == DurationInit /\ [][MainGetVideoStats]_vars

---------------------------------------------------------------------------
(* The claims.                                                             *)

Returned == pc = "gcv_return"

\* C1 (SpecFetch): against a playlist served in pages of which only the
\* last lacks a token, get_channel_videos with limit 0 returns the empty
\* list without any playlistItems call, and with a limit above the number
\* of items returns every item exactly once, in playlist order.
C1_PagedFetchComplete ==
    (mode = "paged" /\ Returned) =>
        /\ max_results = 0 => (videos = <<>> /\ nCalls.pages = 0)
        /\ max_results > Len(playlist) => VideoIds(videos) = playlist

\* a fetch that crossed a page boundary and returned the whole playlist
C1_Witness ==
    /\ mode = "paged"
    /\ Returned
    /\ max_results > Len(playlist)
    /\ Len(playlist) > MaxPage
    /\ nCalls.pages >= 2
    /\ Len(videos) = Len(playlist)

InRange(x) == x # NegInf /\ RatLeq(RatInt(0), x) /\ RatLeq(x, RatInt(100))

Analyzed == pc = "done" /\ niche_data # None /\ niche_data # EmptyResult

\* C2 (SpecAnalyze): the three composite scores analyze_niche returns are
\* each within [0, 100], for every non-empty list of records with
\* non-negative counts, the largest view count 0 included.
C2_ScoresInRange ==
    Analyzed =>
        /\ InRange(niche_data.market_size_score)
        /\ InRange(niche_data.saturation_score)
        /\ InRange(niche_data.profitability_score)

\* C3 (Spec): every record main hands to analyze_niche carries views,
\* likes, comments and tags, so the aggregation never fails on a missing
\* field.
C3_MergedRecordsComplete ==
    /\ pc = "analyze" => \A i \in 1..Len(videos) : HasStats(videos[i])
    /\ raised # "KeyError"

Clamp(x, lo, hi) ==
    IF RatLess(x, RatInt(lo)) THEN RatInt(lo)
    ELSE IF RatLess(RatInt(hi), x) THEN RatInt(hi)
    ELSE x

ClampedReach(avg_views, subscribers) ==
    Clamp(RatSub(RatInt(100), RatMul(RatDiv(avg_views, RatInt(subscribers)), RatInt(100))), 0, 100)

\* C4 as claimed (SpecAnalyze): saturation_score is
\* clamp(100 - avg_views / subscribers * 100, 0, 100) when there is a
\* channel summary with a positive subscriber count, and 50 in every other
\* case.
C4_SaturationAsClaimed ==
    Analyzed =>
        niche_data.saturation_score =
            IF channel_data # None /\ channel_data.subscribers > 0
            THEN ClampedReach(niche_data.avg_views, channel_data.subscribers)
            ELSE RatInt(50)

\* C4 amended (SpecAnalyze): saturation_score is
\* clamp(100 - avg_views / subscribers * 100, 0, 100) when there is a
\* channel summary with a positive subscriber count, 0 when there is a
\* channel summary with subscriber count 0, and 50 when there is no
\* channel summary.
C4_Saturation ==
    Analyzed =>
        niche_data.saturation_score =
            IF channel_data = None THEN RatInt(50)
            ELSE IF channel_data.subscribers > 0
            THEN ClampedReach(niche_data.avg_views, channel_data.subscribers)
            ELSE RatInt(0)

\* a score strictly inside the range, from a known positive subscriber count
C4_Witness ==
    /\ Analyzed
    /\ channel_data # None
    /\ channel_data.subscribers > 0
    /\ RatLess(RatInt(0), niche_data.saturation_score)
    /\ RatLess(niche_data.saturation_score, RatInt(100))

\* C5 (Spec): a transport-level failure in get_channel_data,
\* get_channel_videos or get_video_stats gives the caller an outcome that
\* differs from the step's outcome for "no data".
C5_TransportDistinguishable ==
    /\ cause.summary = "transport" => channel_data # GetChannelData([kind |-> "noitems"])
    /\ (cause.listing = "transport" /\ pc \notin {"gcv_lookup", "gcv_loop"}) =>
           videos # NoItemsResult
    /\ cause.stats = "transport" =>
           video_stats # GetVideoStats(<<1>>, <<[kind |-> "noitems"]>>)

Rank(r) ==
    CASE r = "none" -> 0
      [] r = "summary" -> 1
      [] r = "lookup" -> 2
      [] r = "pages" -> 2
      [] r = "videos" -> 3

InvalidUrl == pc # "start" /\ url # <<>> /\ channel_id = None

SummaryFailed == cause.summary \in {"transport", "error", "nodata"}

\* get_channel_videos returned the empty list and main has looked at it
NoVideos ==
    /\ pc \notin {"start", "get_channel_data", "gcv_lookup", "gcv_loop", "gcv_return"}
    /\ cause.listing # "none"
    /\ videos = <<>>

\* C6 (Spec): the calls of one invocation go channel summary, then the
\* listing (its playlist lookup and pages), then statistics; and after an
\* invalid URL, a channel-summary error or an empty video list main has
\* ended with exactly one error message, no later fetch call, no
\* aggregation and no uncaught exception.
C6_OrderAndSingleError ==
    /\ Rank(lastCall) >= 2 => nCalls.summary = 1
    /\ Rank(lastCall) = 3 => (nCalls.lookup = 1 /\ nCalls.pages >= 1)
    /\ lastCall = "summary" => (nCalls.lookup = 0 /\ nCalls.pages = 0 /\ nCalls.videos = 0)
    /\ lastCall \in {"lookup", "pages"} => nCalls.videos = 0
    /\ InvalidUrl =>
          (pc = "done" /\ errors = 1 /\ nCalls = NoCalls /\ niche_data = None /\ raised = "none")
    /\ SummaryFailed =>
          /\ pc = "done" /\ errors = 1 /\ niche_data = None /\ raised = "none"
          /\ nCalls.lookup = 0 /\ nCalls.pages = 0 /\ nCalls.videos = 0
    /\ NoVideos =>
          /\ pc = "done" /\ errors = 1 /\ niche_data = None /\ raised = "none"
          /\ nCalls.videos = 0

\* main ended on an empty video list, after the summary and listing calls
C6_Witness ==
    /\ pc = "done"
    /\ NoVideos
    /\ errors = 1
    /\ nCalls.summary = 1
    /\ nCalls.pages >= 1

\* C7 (FairFetch): the paging loop of get_channel_videos terminates for
\* every sequence of listing responses, and returns at most limit items.
C7_LoopTerminates ==
    /\ <>Returned
    /\ [](Returned => Len(videos) <= max_results)

TagPlaces == {<<i, j>> \in (1..Len(videos)) \X (1..6) : j <= Len(videos[i].tags)}

TagsSeen == {videos[p[1]].tags[p[2]] : p \in TagPlaces}

CountOf(t) == Cardinality({p \in TagPlaces : videos[p[1]].tags[p[2]] = t})

Earlier(p, q) == p[1] < q[1] \/ (p[1] = q[1] /\ p[2] < q[2])

\* t is seen before u is
SeenFirst(t, u) ==
    \E p \in TagPlaces :
        /\ videos[p[1]].tags[p[2]] = t
        /\ \A q \in TagPlaces : videos[q[1]].tags[q[2]] = u => Earlier(p, q)

RanksBefore(t, u) == CountOf(t) > CountOf(u) \/ (CountOf(t) = CountOf(u) /\ SeenFirst(t, u))

\* C8 (SpecTags): top_tags holds, for the first TopN tags in the order "more
\* occurrences first, among equals the tag seen first", the tag and the
\* number of its occurrences over all records' tag lists.
C8_TopTagsRanked ==
    Analyzed =>
        LET top == niche_data.top_tags
        IN  /\ Len(top) = Min(TopN, Cardinality(TagsSeen))
            /\ \A k \in 1..Len(top) : top[k][1] \in TagsSeen /\ top[k][2] = CountOf(top[k][1])
            /\ \A k, l \in 1..Len(top) : k < l => RanksBefore(top[k][1], top[l][1])
            /\ \A u \in TagsSeen :
                  (\A k \in 1..Len(top) : top[k][1] # u) =>
                      \A k \in 1..Len(top) : RanksBefore(top[k][1], u)

\* more tags than TopN, and a tie decided against the alphabet
C8_Witness ==
    /\ Analyzed
    /\ Cardinality(TagsSeen) > TopN
    /\ Len(niche_data.top_tags) = TopN
    /\ niche_data.top_tags[1][1] = "f"
    /\ niche_data.top_tags[2][1] = "e"
    /\ niche_data.top_tags[1][2] = niche_data.top_tags[2][2]

SumLikes == LET f[k \in 0..Len(videos)] == IF k = 0 THEN 0 ELSE f[k - 1] + videos[k].likes IN f[Len(videos)]

SumComments == LET f[k \in 0..Len(videos)] == IF k = 0 THEN 0 ELSE f[k - 1] + videos[k].comments IN f[Len(videos)]

SumViews == LET f[k \in 0..Len(videos)] == IF k = 0 THEN 0 ELSE f[k - 1] + videos[k].views IN f[Len(videos)]

\* C9 (SpecAnalyze): the engagement rate analyze_niche returns is a finite
\* non-negative number, equal to (sum of likes + sum of comments) / (sum of
\* views) * 100 when the average view count is positive and to 0 when it
\* is 0.
C9_EngagementRate ==
    Analyzed =>
        LET rate == niche_data.avg_engagement_rate
        IN  /\ DOMAIN rate = {"num", "den"}
            /\ rate.den > 0
            /\ rate.num >= 0
            /\ RatLess(RatInt(0), niche_data.avg_views) =>
                   rate.num * SumViews = 100 * (SumLikes + SumComments) * rate.den
            /\ niche_data.avg_views = RatInt(0) => rate = RatInt(0)

\* two records with views and engagement
C9_Witness ==
    /\ Analyzed
    /\ Len(videos) >= 2
    /\ SumViews > 0
    /\ SumLikes > 0
    /\ SumComments > 0
    /\ RatLess(RatInt(0), niche_data.avg_engagement_rate)

ShapesMatched == {k \in 1..Len(patterns) : \E i \in 1..Len(url) : MatchesAt(url, k, i)}

\* the text group(1) holds for the leftmost match of shape k
CaptureOf(k) ==
    LET i == CHOOSE p \in 1..Len(url) :
                 MatchesAt(url, k, p) /\ \A q \in 1..(p - 1) : ~MatchesAt(url, k, q)
    IN  Str(IdRun(url, i + 1))

\* C10 (SpecResolve): a URL matching a known shape resolves to the capture
\* of the first shape, in list order, that matches; a string holding the
\* domain but matching no shape resolves to the sentinel "custom_url"; any
\* other string resolves to None, which main reports as an invalid URL,
\* once, without issuing any call.
C10_Resolution ==
    (pc # "start" /\ url # <<>>) =>
        /\ ShapesMatched # {} =>
              channel_id = CaptureOf(CHOOSE k \in ShapesMatched : \A l \in ShapesMatched : k <= l)
        /\ (ShapesMatched = {} /\ \E i \in 1..Len(url) : url[i] \in {Domain} \cup PatternTokens) =>
              channel_id = CustomUrl
        /\ (ShapesMatched = {} /\ \A i \in 1..Len(url) : url[i] \notin {Domain} \cup PatternTokens) =>
              /\ channel_id = None
              /\ pc = "done" /\ errors = 1 /\ nCalls = NoCalls

\* a URL of two shapes, resolved to the capture of the one listed first
\* though it occurs later in the text
C10_Witness ==
    /\ pc # "start"
    /\ url = <<patterns[2], "a", patterns[1], "b">>
    /\ channel_id = Str(<<"b">>)

\* the number a digit string writes, 0 for no digits
Written(digits) ==
    LET n == Len(digits)
        v[k \in 0..n] == IF k = 0 THEN 0 ELSE v[k - 1] + DigitValue(digits[k]) * Pow10(n - k)
    IN  v[n]

StatsFetched == pc = "merge" /\ video_stats # <<>>

\* C11 (SpecDuration): for every duration PT[#H][#M][#S], whichever of its
\* components are present, the duration get_video_stats records is
\* hours * 3600 + minutes * 60 + seconds with each absent component counted
\* as 0; "PT" alone gives 0.
C11_DurationParsed ==
    (StatsFetched /\ ~duration.days) =>
        \A i \in 1..Len(video_stats) :
            video_stats[i].duration =
                Written(duration.h) * 3600 + Written(duration.m) * 60 + Written(duration.s)

\* a duration without hours, with minutes and seconds of two digits
C11_Witness ==
    /\ StatsFetched
    /\ ~duration.days
    /\ duration.h = <<>>
    /\ duration.m = <<"1", "9">>
    /\ duration.s = <<"0", "1">>
    /\ video_stats[1].duration = 1141

====
